---- MODULE Spec2Model ----
(***************************************************************************)
(* Interactive message page: a canvas particle field and a reveal / cycle  *)
(* state machine.  The repository holds three variants of the script:      *)
(*   "ripple"  : src/script.js lines 1-352   (ripple on every click)       *)
(*   "cycling" : src/script.js lines 386-750 (messages cycle on re-click)  *)
(*   "simple"  : src/unnamed/part_000        (burst at the canvas centre)  *)
(* The variable `variant` says which script the page has loaded.           *)
(*                                                                         *)
(* Lengths are on an integer grid of half pixels, so that width / 2 is     *)
(* exact for every whole-pixel canvas.  life, decay and opacity are        *)
(* counted in decay steps: FullLife stands for 1 and 1 for the decay 0.02  *)
(* (IEEE doubles reach life <= 0 at exactly the 1 / 0.02 = 50th step, as   *)
(* the integers do).                                                       *)
(***************************************************************************)
EXTENDS Integers, Sequences, FiniteSets, TLC

\* ------------------------------------------------------------ bounds
\* CONFIG.particles.count (50 in the source), scaled.
ParticleCount == 1
\* CONFIG.animation.particleBurstCount (15 in the source), scaled.
BurstCount == 1
\* life = 1 counted in decay steps of 0.02 (50 in the source), scaled.
FullLife == 3
\* CONFIG.particles.maxSpeed in half pixels per frame (0.5 px in the source).
MaxSpeed == 2
\* Pointer, touch and key events a run may deliver.
MaxInteractions == 2
\* Animation frames a run may deliver after init().
MaxFrames == 2
\* Resize and scroll events a run may deliver.
MaxResizes == 1
\* Calls of the utility functions a run may make.
MaxCalls == 1
\* Largest argument of addParticles.
MaxAdd == 2
\* Interactions of a run that only clicks, taps and types.
MaxTriggers == 5
\* CONFIG.particles.count and particleBurstCount of the runs that watch the field.
FieldCount == 2
FieldBurst == 2
\* Frames beyond a burst's lifetime that those runs deliver.
ExtraFrames == 2

\* ------------------------------------------------------------ program constants
ParticleSize == 2
BurstSpread == 2
RevealDelay == 100
PulseDelay == 100
SwapDelay == 300
RippleDuration == 800

Variants == {"ripple", "cycling", "simple"}

Messages ==
    << [title |-> "Hello, World!",  subtitle |-> "Welcome to something special"],
       [title |-> "Keep Exploring", subtitle |-> "There's more to discover"],
       [title |-> "Stay Curious",   subtitle |-> "The journey continues"] >>

\* Viewport widths and heights the window may take (whole pixels: even).
Extents == {2, 4}

\* Math.random() * extent lies in [0, extent): its lowest and highest grid point.
RandomCoord(extent) == {0, extent - 1}

\* (Math.random() - 0.5) * factor px lies in [-factor/2, factor/2) px, that is
\* [-factor, factor) half pixels: its lowest and highest grid point.
RandomSpeed(factor) == {0 - factor, factor - 1}

\* Math.random() * 3 + 1 lies in [1, 4): its lowest and highest whole value.
RandomSize == {1, 3}

\* Math.random() * 0.5 + 0.3 lies in [0.3, 0.8): the grid points of it, in
\* units of 1 / FullLife.
RandomOpacity == {o \in 0..FullLife : 10 * o >= 3 * FullLife /\ 10 * o < 8 * FullLife}

\* ------------------------------------------------------------ Particle
\* An argument of the constructor: a number, or undefined.
Num(n) == [def |-> TRUE, n |-> n]
Undefined == [def |-> FALSE, n |-> 0]

\* JavaScript truthiness of a numeric argument: undefined and 0 are falsy.
Truthy(a) == a.def /\ a.n # 0

\* Math.random() is sampled at its two ends: every call of one construction
\* returns its lowest outcome, or every call its highest.
RandomEnds == {"low", "high"}
Low(S) == CHOOSE v \in S : \A u \in S : v <= u
High(S) == CHOOSE v \in S : \A u \in S : v >= u
Pick(end, S) == IF end = "low" THEN Low(S) ELSE High(S)

\* The outcomes of the Math.random() calls of one construction, new
\* Particle(x, y, burst).  A call the constructor does not make (the position
\* when the argument is truthy, the size of an ambient particle, the opacity
\* of a burst particle) is given the outcome 0.
Draws(x, y, burst, cv, cf) ==
    {[x       |-> IF Truthy(x) THEN 0 ELSE Pick(end, RandomCoord(cv.width)),
      y       |-> IF Truthy(y) THEN 0 ELSE Pick(end, RandomCoord(cv.height)),
      size    |-> IF burst THEN Pick(end, RandomSize) ELSE 0,
      speedX  |-> Pick(end, RandomSpeed(IF burst THEN BurstSpread ELSE cf.maxSpeed)),
      speedY  |-> Pick(end, RandomSpeed(IF burst THEN BurstSpread ELSE cf.maxSpeed)),
      opacity |-> IF burst THEN 0 ELSE Pick(end, RandomOpacity)] : end \in RandomEnds}

\* new Particle(x, y, burst): `a || b` takes b whenever a is falsy.  born is
\* a history field: the number of frames delivered when it was constructed.
NewParticle(x, y, burst, d, cf, now) ==
    [born    |-> now,
     x       |-> IF Truthy(x) THEN x.n ELSE d.x,
     y       |-> IF Truthy(y) THEN y.n ELSE d.y,
     size    |-> IF burst THEN d.size ELSE cf.size,
     speedX  |-> d.speedX,
     speedY  |-> d.speedY,
     opacity |-> IF burst THEN FullLife ELSE d.opacity,
     life    |-> FullLife,
     decay   |-> IF burst THEN 1 ELSE 0]

\* update() without its `x < 0` and `y < 0` tests.
UpdateNoLowerWrap(p, cv) ==
    LET x1   == p.x + p.speedX
        y1   == p.y + p.speedY
        l1   == IF p.decay > 0 THEN p.life - p.decay ELSE p.life
        o1   == IF p.decay > 0 THEN l1 ELSE p.opacity
    IN  [p EXCEPT !.x = IF x1 > cv.width THEN 0 ELSE x1,
                  !.y = IF y1 > cv.height THEN 0 ELSE y1,
                  !.life = l1, !.opacity = o1]

\* Particle.update(): move, decay, then the four wrap tests in source order.
Update(p, cv) ==
    LET x1   == p.x + p.speedX
        y1   == p.y + p.speedY
        l1   == IF p.decay > 0 THEN p.life - p.decay ELSE p.life
        o1   == IF p.decay > 0 THEN l1 ELSE p.opacity
        x2   == IF x1 > cv.width THEN 0 ELSE x1
        x3   == IF x2 < 0 THEN cv.width ELSE x2
        y2   == IF y1 > cv.height THEN 0 ELSE y1
        y3   == IF y2 < 0 THEN cv.height ELSE y2
    IN  [p EXCEPT !.x = x3, !.y = y3, !.life = l1, !.opacity = o1]

\* splice taking its index as a 1-based position.
SpliceOneBased(ps, index) ==
    [k \in 1..(Len(ps) - 1) |-> IF k < index THEN ps[k] ELSE ps[k + 1]]

\* Array.prototype.splice(index, 1) on a 0-based index.
Splice(ps, index) ==
    [k \in 1..(Len(ps) - 1) |-> IF k <= index THEN ps[k] ELSE ps[k + 1]]

\* The removal test with `<` for `<=`.
IsDeadStrict(p) == p.life < 0

\* The removal test of animate's callback.
IsDead(p) == p.life <= 0

\* particles.forEach(callback): the indices 0 .. len0-1 fixed when the loop
\* starts are visited in order, an index is skipped once the array has become
\* shorter than it, and the callback splices the array it is iterating.
RECURSIVE ForEachFrom(_, _, _, _)
ForEachFrom(ps, index, len0, cv) ==
    IF index >= len0 THEN ps
    ELSE IF index >= Len(ps) THEN ForEachFrom(ps, index + 1, len0, cv)
    ELSE LET q   == Update(ps[index + 1], cv)
             ps1 == [ps EXCEPT ![index + 1] = q]
             ps2 == IF IsDead(q) THEN Splice(ps1, index) ELSE ps1
         IN  \* the next index sees the array as this callback left it
             CHOOSE out \in {ForEachFrom(next, index + 1, len0, cv) : next \in {ps2}} : TRUE

AnimatePass(ps, cv) == ForEachFrom(ps, 0, Len(ps), cv)

\* n constructions appended in order, the k-th using the draw ds[k].
Appended(ps, n, x, y, burst, ds, cf, now) ==
    ps \o [k \in 1..n |-> NewParticle(x, y, burst, ds[k], cf, now)]

\* ------------------------------------------------------------ state
VARIABLES
    variant,    \* which of the three scripts the page runs
    cfg,        \* CONFIG
    win,        \* window.innerWidth / innerHeight, documentElement.scrollHeight
    canvas,     \* canvas.width, canvas.height
    particles,  \* the particle collection
    isRevealed, \* the revealed flag
    dom,        \* classes, text and styles of the page's elements
    ripples,    \* the ripple elements attached to document.body
    timers,     \* pending setTimeout callbacks, oldest first
    raf,        \* pending requestAnimationFrame callbacks
    hist,       \* history (not program state): counters of what has happened,
                \* and the event the ripple variant's handleInteraction last got
    env      \* the environment: how many events of each kind it delivers, and where

vars == << variant, cfg, win, canvas, particles, isRevealed, dom, ripples, timers, raf,
           hist, env >>

\* The program state as one record, so that a handler is a function of it.
State ==
    [variant |-> variant, cfg |-> cfg, win |-> win, canvas |-> canvas,
     particles |-> particles, isRevealed |-> isRevealed, dom |-> dom,
     ripples |-> ripples, timers |-> timers, raf |-> raf, hist |-> hist]

Is(s) ==
    /\ variant = s.variant
    /\ cfg = s.cfg
    /\ win = s.win
    /\ canvas = s.canvas
    /\ particles = s.particles
    /\ isRevealed = s.isRevealed
    /\ dom = s.dom
    /\ ripples = s.ripples
    /\ timers = s.timers
    /\ raf = s.raf
    /\ hist = s.hist

Becomes(s) ==
    /\ UNCHANGED env
    /\ variant' = s.variant
    /\ cfg' = s.cfg
    /\ win' = s.win
    /\ canvas' = s.canvas
    /\ particles' = s.particles
    /\ isRevealed' = s.isRevealed
    /\ dom' = s.dom
    /\ ripples' = s.ripples
    /\ timers' = s.timers
    /\ raf' = s.raf
    /\ hist' = s.hist

\* ------------------------------------------------------------ events
\* Client coordinates an event may carry (whole pixels, 0 included).
EventCoords == {0, 2}
EventPoints == [clientX : EventCoords, clientY : EventCoords]
Point(x, y) == [clientX |-> x, clientY |-> y]

\* No event object: handleKeyPress calls revealMessage() without one.
NoEvent == [def |-> FALSE, touches |-> << >>, hasClient |-> FALSE, clientX |-> 0, clientY |-> 0]
\* A MouseEvent: clientX / clientY, no touches property.
Click(pt) == [def |-> TRUE, touches |-> << >>, hasClient |-> TRUE,
              clientX |-> pt.clientX, clientY |-> pt.clientY]
\* A TouchEvent of touchstart: a touch list, no clientX / clientY.
Touch(pt) == [def |-> TRUE, touches |-> << pt >>, hasClient |-> FALSE, clientX |-> 0, clientY |-> 0]

PointerEvents(pts) == {Click(pt) : pt \in pts} \cup {Touch(pt) : pt \in pts}
Keys == {" ", "Enter", "a"}

\* ------------------------------------------------------------ timers
\* A pending callback: what it will do (kind and the values its closure
\* holds), its delay, and `at`, the event whose handler set it.
Timer(kind, delay, e, msg, ripple) ==
    [kind |-> kind, delay |-> delay, e |-> e, msg |-> msg, ripple |-> ripple, at |-> 0]

\* A timer handle that forgets the callback set before (clearTimeout).
SetTimeoutReplacing(s, t) ==
    [s EXCEPT !.timers = << [t EXCEPT !.at = s.hist.interactions] >>]

\* setTimeout(callback, delay)
SetTimeout(s, t) ==
    [s EXCEPT !.timers = Append(@, [t EXCEPT !.at = s.hist.interactions])]

\* HTML timers: a callback does not run before one set earlier whose delay is
\* equal or smaller, nor before one set by the same handler run (at the same
\* clock reading) whose delay is smaller; nothing else orders them.
CanFire(ts, i) ==
    /\ \A j \in 1..(i - 1) : ts[j].delay > ts[i].delay
    /\ \A j \in 1..Len(ts) : ts[j].at = ts[i].at => ts[j].delay >= ts[i].delay

RemoveAt(seq, i) == [k \in 1..(Len(seq) - 1) |-> IF k < i THEN seq[k] ELSE seq[k + 1]]

\* ------------------------------------------------------------ canvas and field
\* setupCanvas(): the ripple variant takes the taller of viewport and document.
SetupCanvas(s) ==
    [s EXCEPT !.canvas =
        [width  |-> s.win.innerWidth,
         height |-> IF s.variant = "ripple" /\ s.win.scrollHeight > s.win.innerHeight
                    THEN s.win.scrollHeight ELSE s.win.innerHeight]]

\* initParticles without its `particles = []`.
InitParticlesKeeping(s, ds) ==
    [s EXCEPT !.particles = Appended(@, s.cfg.count, Undefined, Undefined, FALSE, ds, s.cfg, s.hist.frames)]

\* initParticles(): a fresh collection of CONFIG.particles.count particles.
InitParticles(s, ds) ==
    [s EXCEPT !.particles = Appended(<< >>, s.cfg.count, Undefined, Undefined, FALSE, ds, s.cfg, s.hist.frames)]

\* createParticleBurst(x, y)
CreateParticleBurst(s, x, y, ds) ==
    [s EXCEPT !.particles = Appended(@, s.cfg.burstCount, Num(x), Num(y), TRUE, ds, s.cfg, s.hist.frames)]

\* addParticles with `i <= count` for `i < count`.
AddParticlesOneMore(s, count, ds) ==
    [s EXCEPT !.particles = Appended(@, count + 1, Undefined, Undefined, FALSE,
                                     [k \in 1..(count + 1) |-> ds[IF k > count THEN count ELSE k]],
                                     s.cfg, s.hist.frames),
              !.hist.added = @ + count + 1]

\* addParticles(count); hist.added counts the particles it has added.
AddParticles(s, count, ds) ==
    [s EXCEPT !.particles = Appended(@, count, Undefined, Undefined, FALSE, ds, s.cfg, s.hist.frames),
              !.hist.added = @ + count]

\* animate without its requestAnimationFrame(animate).
AnimateWithoutRequest(s) ==
    LET after == AnimatePass(s.particles, s.canvas)
    IN  [s EXCEPT !.particles = after,
                  !.hist.removed = @ + (Len(s.particles) - Len(after))]

\* animate(): one pass over the collection, then the next frame is requested.
Animate(s) ==
    LET after == AnimatePass(s.particles, s.canvas)
    IN  [s EXCEPT !.particles = after, !.raf = @ + 1,
                  !.hist.removed = @ + (Len(s.particles) - Len(after))]

\* The draws of n constructions in state s.
DrawSeqs(s, n, x, y, burst) == [1..n -> Draws(x, y, burst, s.canvas, s.cfg)]

\* ------------------------------------------------------------ coordinates
\* getEventCoords(e) of the cycling variant.
GetEventCoords(s, e) ==
    IF e.def /\ Len(e.touches) > 0
    THEN [x |-> e.touches[1].clientX, y |-> e.touches[1].clientY]
    ELSE IF e.def /\ e.hasClient
         THEN [x |-> e.clientX, y |-> e.clientY]
         ELSE [x |-> s.canvas.width \div 2, y |-> s.canvas.height \div 2]

\* The two `e.clientX || (touch ? touch.clientX : window.innerWidth / 2)`
\* expressions of the ripple variant's handleInteraction.
RippleCoords(s, e) ==
    [x |-> IF e.hasClient /\ e.clientX # 0 THEN e.clientX
           ELSE IF Len(e.touches) > 0 THEN e.touches[1].clientX
           ELSE s.win.innerWidth \div 2,
     y |-> IF e.hasClient /\ e.clientY # 0 THEN e.clientY
           ELSE IF Len(e.touches) > 0 THEN e.touches[1].clientY
           ELSE s.win.innerHeight \div 2]

\* ------------------------------------------------------------ reveal and cycle
Bump(s, counter) == [s EXCEPT !.hist[counter] = @ + 1]

\* cycleMessage taking the index modulo length - 1.
CycleMessageShortWrap(s, e) ==
    LET next == (s.cfg.currentMessageIndex + 1) % (Len(Messages) - 1)
        s1   == [s EXCEPT !.cfg.currentMessageIndex = next,
                          !.dom.messageOpacity = "0",
                          !.dom.subtitleOpacity = "0"]
    IN  SetTimeout(Bump(s1, "cycles"), Timer("swap", SwapDelay, e, next, 0))

\* cycleMessage reading currentMsg before it advances the index.
CycleMessageEarlyCapture(s, e) ==
    LET next == (s.cfg.currentMessageIndex + 1) % Len(Messages)
        s1   == [s EXCEPT !.cfg.currentMessageIndex = next,
                          !.dom.messageOpacity = "0",
                          !.dom.subtitleOpacity = "0"]
    IN  SetTimeout(Bump(s1, "cycles"),
                   Timer("swap", SwapDelay, e, s.cfg.currentMessageIndex, 0))

\* cycleMessage(e): advance the index, fade out, defer the swap.  The callback
\* closes over currentMsg, the message of the index as it is now.
CycleMessage(s, e) ==
    LET next == (s.cfg.currentMessageIndex + 1) % Len(Messages)
        s1   == [s EXCEPT !.cfg.currentMessageIndex = next,
                          !.dom.messageOpacity = "0",
                          !.dom.subtitleOpacity = "0"]
    IN  SetTimeout(Bump(s1, "cycles"), Timer("swap", SwapDelay, e, next, 0))

\* The part of revealMessage after its isRevealed test.
FirstReveal(s, e) ==
    LET s1 == [s EXCEPT !.isRevealed = TRUE,
                        !.dom.instructionHidden = TRUE,
                        !.dom.hintHidden = TRUE]
    IN  SetTimeout(Bump(Bump(s1, "hides"), "revealTimers"),
                   Timer("reveal", s.cfg.revealDelay, e, 0, 0))

\* revealMessage flipping the flag (isRevealed = !isRevealed).
RevealMessageToggling(s, e) ==
    IF s.isRevealed
    THEN [s EXCEPT !.isRevealed = FALSE]
    ELSE FirstReveal(s, IF s.variant = "cycling" THEN e ELSE NoEvent)

\* revealMessage without the `return` that follows cycleMessage(e).
RevealMessageFallingThrough(s, e) ==
    IF s.isRevealed
    THEN IF s.variant = "cycling" THEN FirstReveal(CycleMessage(s, e), e) ELSE s
    ELSE FirstReveal(s, IF s.variant = "cycling" THEN e ELSE NoEvent)

\* revealMessage(e): the cycling variant cycles when already revealed, the
\* other two return.
RevealMessage(s, e) ==
    IF s.isRevealed
    THEN IF s.variant = "cycling" THEN CycleMessage(s, e) ELSE s
    ELSE FirstReveal(s, IF s.variant = "cycling" THEN e ELSE NoEvent)

\* container.classList.add('active') and the timer that removes it.
Pulse(s) ==
    SetTimeout([s EXCEPT !.dom.active = TRUE], Timer("pulse", PulseDelay, NoEvent, 0, 0))

\* createRipple without the timer that removes the element.
CreateRippleNoRemoval(s, x, y) ==
    LET id == s.hist.ripplesMade + 1
    IN  [Bump(s, "ripplesMade") EXCEPT
            !.ripples = @ \cup {[id |-> id, left |-> x, top |-> y]}]

\* createRipple(x, y) of the ripple variant: one element, one removal timer.
CreateRipple(s, x, y) ==
    LET id == s.hist.ripplesMade + 1
    IN  SetTimeout([Bump(s, "ripplesMade") EXCEPT
                        !.ripples = @ \cup {[id |-> id, left |-> x, top |-> y]}],
                   Timer("ripple", RippleDuration, NoEvent, 0, id))

\* Where handleInteraction puts its own burst, for the variants that have one.
InteractionOrigin(s, e) ==
    IF s.variant = "ripple" THEN RippleCoords(s, e)
    ELSE [x |-> s.canvas.width \div 2, y |-> s.canvas.height \div 2]

\* handleInteraction(e) of each variant.
HandleInteraction(s, e, ds) ==
    LET s0 == Bump(Bump(s, "interactions"), "triggers")
        o  == InteractionOrigin(s, e)
    IN  CASE s.variant = "cycling" -> Pulse(RevealMessage(s0, e))
          [] s.variant = "simple"  ->
                CreateParticleBurst(Pulse(RevealMessage(s0, e)), o.x, o.y, ds)
          [] s.variant = "ripple"  ->
                LET s1 == CreateParticleBurst(
                              CreateRipple([s0 EXCEPT !.hist.pointer = e], o.x, o.y),
                              o.x, o.y, ds)
                IN  IF ~s1.isRevealed THEN Pulse(RevealMessage(s1, e)) ELSE s1

\* handleKeyPress(e): Space and Enter call revealMessage() with no event.
HandleKeyPress(s, key) ==
    LET s0 == Bump(s, "interactions")
    IN  IF key = " " \/ key = "Enter"
        THEN RevealMessage(Bump(s0, "triggers"), NoEvent)
        ELSE s0

\* Where the callback of timer t puts its burst when it runs in state s.
CallbackOrigin(s, t) ==
    CASE s.variant = "cycling" -> GetEventCoords(s, t.e)
      [] s.variant = "simple"  -> [x |-> s.canvas.width \div 2, y |-> s.canvas.height \div 2]
      [] s.variant = "ripple"  -> [x |-> s.win.innerWidth \div 2, y |-> s.win.innerHeight \div 2]

\* Whether the callback of timer t creates a burst.
CallbackBursts(s, t) ==
    \/ t.kind = "swap"
    \/ t.kind = "reveal" /\ s.cfg.glowOnReveal

\* The callback of timer t, run in state s (t already taken off the queue).
RunCallback(s, t, ds) ==
    LET o == CallbackOrigin(s, t)
    IN  CASE t.kind = "reveal" ->
                LET s1 == [Bump(s, "revealEffects") EXCEPT
                              !.dom.messageRevealed = TRUE,
                              !.dom.subtitleRevealed = TRUE,
                              !.dom.cursor = IF s.variant = "ripple" THEN "default" ELSE @]
                IN  IF s.cfg.glowOnReveal THEN CreateParticleBurst(s1, o.x, o.y, ds) ELSE s1
          [] t.kind = "swap" ->
                CreateParticleBurst(
                    [Bump(s, "swaps") EXCEPT !.dom.title = Messages[t.msg + 1].title,
                              !.dom.subtitle = Messages[t.msg + 1].subtitle,
                              !.dom.messageOpacity = "1",
                              !.dom.subtitleOpacity = "1"],
                    o.x, o.y, ds)
          [] t.kind = "pulse" -> [s EXCEPT !.dom.active = FALSE]
          [] t.kind = "ripple" -> [s EXCEPT !.ripples = {r \in @ : r.id # t.ripple}]

\* ------------------------------------------------------------ resize, scroll
\* handleResize without its initParticles() call.
HandleResizeCanvasOnly(s, ds) == SetupCanvas(s)

\* handleResize(): the ripple variant only resizes the canvas.
HandleResize(s, ds) ==
    IF s.variant = "ripple" THEN SetupCanvas(s) ELSE InitParticles(SetupCanvas(s), ds)

\* handleScroll() of the ripple variant.
HandleScroll(s) ==
    LET newHeight == IF s.win.scrollHeight > s.win.innerHeight
                     THEN s.win.scrollHeight ELSE s.win.innerHeight
    IN  IF s.canvas.height # newHeight THEN [s EXCEPT !.canvas.height = newHeight] ELSE s

\* ------------------------------------------------------------ utilities
\* setMessage writing its arguments to the wrong elements.
SetMessageSwapped(s, title, subtitleText) ==
    [s EXCEPT !.dom.title = subtitleText, !.dom.subtitle = title]

\* setMessage(title, subtitleText)
SetMessage(s, title, subtitleText) ==
    [s EXCEPT !.dom.title = title, !.dom.subtitle = subtitleText]

\* setParticleColor(color)
SetParticleColor(s, color) == [s EXCEPT !.cfg.color = color]

\* ------------------------------------------------------------ initial state
DefaultColor == "rgba(99, 179, 237, 0.6)"
Colors == {"rgba(255, 100, 100, 0.6)"}
\* The text of the page's own markup, before any script has written one.
MarkupText == "(markup)"
CustomTexts == {[title |-> "New Title", subtitle |-> "New subtitle text"]}

\* The module-level declarations, before init() has run.
Loaded(v, glow, w, count, burst) ==
    [variant |-> v,
     cfg |-> [count |-> count, maxSpeed |-> MaxSpeed, size |-> ParticleSize,
              color |-> DefaultColor, glowOnReveal |-> glow,
              revealDelay |-> RevealDelay, burstCount |-> burst,
              currentMessageIndex |-> 0],
     win |-> w,
     canvas |-> [width |-> 0, height |-> 0],
     particles |-> << >>,
     isRevealed |-> FALSE,
     dom |-> [instructionHidden |-> FALSE, hintHidden |-> FALSE,
              messageRevealed |-> FALSE, subtitleRevealed |-> FALSE,
              title |-> MarkupText, subtitle |-> MarkupText,
              messageOpacity |-> "", subtitleOpacity |-> "",
              active |-> FALSE, cursor |-> "pointer"],
     ripples |-> {},
     timers |-> << >>,
     raf |-> 0,
     hist |-> [interactions |-> 0, frames |-> 0, resizes |-> 0, calls |-> 0,
               triggers |-> 0, cycles |-> 0, hides |-> 0, revealTimers |-> 0,
               revealEffects |-> 0, swaps |-> 0, removed |-> 0, ripplesMade |-> 0,
               added |-> 0, pointer |-> NoEvent, setAt |-> -1]]

\* Window sizes: a viewport in portrait or in landscape.  Only the ripple
\* variant reads scrollHeight.
Windows(v) ==
    {w \in [innerWidth : Extents, innerHeight : Extents, scrollHeight : Extents] :
        /\ w.innerWidth # w.innerHeight
        /\ v # "ripple" => w.scrollHeight = w.innerHeight}

\* init(): setupCanvas(), initParticles(), then animate() runs its first pass.
Started(v, glow, w, count, burst, ds) ==
    Animate(InitParticles(SetupCanvas(Loaded(v, glow, w, count, burst)), ds))

\* The page of one of the variants vs after init(), configured with `count`
\* ambient particles and bursts of `burst`, in one of the environments envs.
InitWith(vs, count, burst, envs) ==
    /\ env \in envs
    /\ \E v \in vs, glow \in BOOLEAN :
         \E w \in Windows(v) :
           \E ds \in DrawSeqs(SetupCanvas(Loaded(v, glow, w, count, burst)), count,
                              Undefined, Undefined, FALSE) :
             Is(Started(v, glow, w, count, burst, ds))

\* An environment: how many events of each kind it delivers, and the points
\* its clicks and touches land on.
Env(interactions, frames, resizes, calls, points) ==
    [interactions |-> interactions, frames |-> frames, resizes |-> resizes,
     calls |-> calls, points |-> points]

\* A few interactions together with frames, or resizes, or utility calls, and
\* one interaction together with resizes and utility calls.
Broad ==
    {Env(MaxInteractions, MaxFrames, 0, 0, {Point(0, 2), Point(2, 0)}),
     Env(MaxInteractions, 0, MaxResizes, 0, {Point(0, 2), Point(2, 0)}),
     Env(MaxInteractions, 0, 0, MaxCalls, {Point(0, 2), Point(2, 0)}),
     Env(1, 0, MaxResizes, MaxCalls, {Point(0, 2), Point(2, 0)})}

\* Many interactions and nothing else.
Deep == {Env(MaxTriggers, 0, 0, 0, {Point(0, 2)})}

\* One interaction, then frames beyond the lifetime of its burst, with a
\* utility call or a resize in between.
Watching ==
    {Env(1, FullLife + ExtraFrames, 0, MaxCalls, {Point(0, 2), Point(2, 2)}),
     Env(1, FullLife + ExtraFrames, MaxResizes, 0, {Point(0, 2), Point(2, 2)})}

\* Frames running alongside one interaction, or resizes, or utility calls.
Looping ==
    {Env(1, MaxFrames, 0, 0, {Point(0, 2)}),
     Env(0, MaxFrames, MaxResizes, 0, {}),
     Env(0, MaxFrames, 0, MaxCalls, {})}

Init == InitWith(Variants, ParticleCount, BurstCount, Broad)

\* Every variant with its render loop running beside the other events.
LoopInit == InitWith(Variants, ParticleCount, BurstCount, Looping)

\* The cycling variant under long runs of interactions.
CycleInit == InitWith({"cycling"}, ParticleCount, BurstCount, Broad \cup Deep)

\* The cycling variant with a larger field, watched over a burst's lifetime.
FieldInit == InitWith({"cycling"}, FieldCount, FieldBurst, Watching)

\* ------------------------------------------------------------ actions
\* A click or a touchstart reaches handleInteraction.
Interaction ==
    /\ hist.interactions < env.interactions
    /\ \E e \in PointerEvents(env.points) :
         LET o == InteractionOrigin(State, e)
         IN  \E ds \in IF variant = "cycling" THEN {<< >>}
                       ELSE DrawSeqs(State, cfg.burstCount, Num(o.x), Num(o.y), TRUE) :
               Becomes(HandleInteraction(State, e, ds))

\* A keypress reaches handleKeyPress.
KeyPress ==
    /\ hist.interactions < env.interactions
    /\ \E key \in Keys : Becomes(HandleKeyPress(State, key))

\* The window takes a new size and the resize listener runs.
Resize ==
    /\ hist.resizes < env.resizes
    /\ \E w \in Windows(variant) :
         LET s0 == [Bump(State, "resizes") EXCEPT !.win = w]
         IN  \E ds \in IF variant = "ripple" THEN {<< >>}
                       ELSE DrawSeqs(SetupCanvas(s0), cfg.count, Undefined, Undefined, FALSE) :
               Becomes(HandleResize(s0, ds))

\* The document's height is laid out anew and a scroll event is dispatched;
\* only the ripple variant registers a scroll listener.
Scroll ==
    /\ hist.resizes < env.resizes
    /\ \E h \in Extents :
         LET s0 == Bump(State, "resizes")
         IN  Becomes(IF variant = "ripple"
                     THEN HandleScroll([s0 EXCEPT !.win.scrollHeight = h])
                     ELSE s0)

\* A pending timer's callback runs.
FireTimer ==
    \E i \in 1..Len(timers) :
      /\ CanFire(timers, i)
      /\ LET t  == timers[i]
             s0 == [State EXCEPT !.timers = RemoveAt(@, i)]
             o  == CallbackOrigin(s0, t)
         IN  \E ds \in IF CallbackBursts(s0, t)
                       THEN DrawSeqs(s0, cfg.burstCount, Num(o.x), Num(o.y), TRUE)
                       ELSE {<< >>} :
               Becomes(RunCallback(s0, t, ds))

\* The requested animation frame arrives.
Frame ==
    /\ raf > 0
    /\ hist.frames < env.frames
    /\ Becomes(Animate([Bump(State, "frames") EXCEPT !.raf = @ - 1]))

\* A host script calls setMessage; the ripple variant defines no such
\* function, so the call throws a ReferenceError and changes nothing.
\* hist.setAt records how many qualifying interactions came before the call.
CallSetMessage ==
    /\ hist.calls < env.calls
    /\ \E m \in CustomTexts :
         LET s0 == Bump(State, "calls")
             s1 == [s0 EXCEPT !.hist.setAt = s0.hist.triggers]
         IN  Becomes(IF variant = "ripple" THEN s0 ELSE SetMessage(s1, m.title, m.subtitle))

CallSetParticleColor ==
    /\ hist.calls < env.calls
    /\ \E c \in Colors : Becomes(SetParticleColor(Bump(State, "calls"), c))

CallAddParticles ==
    /\ hist.calls < env.calls
    /\ \E n \in 1..MaxAdd :
         \E ds \in DrawSeqs(State, n, Undefined, Undefined, FALSE) :
           Becomes(AddParticles(Bump(State, "calls"), n, ds))

Next ==
    \/ Interaction
    \/ KeyPress
    \/ Resize
    \/ Scroll
    \/ FireTimer
    \/ Frame
    \/ CallSetMessage
    \/ CallSetParticleColor
    \/ CallAddParticles

Spec == Init /\ [][Next]_vars
CycleSpec == CycleInit /\ [][Next]_vars
FieldSpec == FieldInit /\ [][Next]_vars
\* A frame requested with requestAnimationFrame is eventually delivered.
LoopSpec == LoopInit /\ [][Next]_vars /\ WF_vars(Frame)

\* ------------------------------------------------------------ claims
\* Frames delivered since particle p was constructed.
Age(p) == hist.frames - p.born
Indices == 1..Len(particles)
Ambient(ps) == {i \in 1..Len(ps) : ps[i].decay = 0}
Bursting(ps) == {i \in 1..Len(ps) : ps[i].decay > 0}
Pending(kind) == {i \in 1..Len(timers) : timers[i].kind = kind}

\* C1 (as claimed): after a burst, with no further interaction, resize or
\* utility call, no particle of the burst is still in the collection once
\* FullLife (1 / 0.02 = 50 in the source) animate passes have run since it was
\* created.
C1_BurstGoneAfterLifetime ==
    (variant = "cycling" /\ hist.triggers <= 1 /\ hist.resizes = 0 /\ hist.calls = 0)
        => \A i \in Bursting(particles) : Age(particles[i]) < FullLife

\* C2 (amended): for every particle and canvas size the run reaches, also
\* right after a resize, Particle.update leaves 0 <= x <= canvas.width and
\* 0 <= y <= canvas.height.
C2_WrapWithinClosedBounds ==
    \A i \in Indices :
        LET q == Update(particles[i], canvas)
        IN  /\ 0 <= q.x /\ q.x <= canvas.width
            /\ 0 <= q.y /\ q.y <= canvas.height

\* C2 (as claimed): ... leaves 0 <= x < canvas.width and 0 <= y < canvas.height.
C2_WrapWithinHalfOpenBounds ==
    \A i \in Indices :
        LET q == Update(particles[i], canvas)
        IN  /\ 0 <= q.x /\ q.x < canvas.width
            /\ 0 <= q.y /\ q.y < canvas.height

\* C2 witness: a particle about to leave through the lower edge, which update
\* puts on the upper bound, and one lying beyond a canvas that has shrunk.
C2_Witness ==
    /\ \E i \in Indices :
          /\ particles[i].x + particles[i].speedX < 0
          /\ Update(particles[i], canvas).x = canvas.width
    /\ \E i \in Indices :
          /\ particles[i].y + particles[i].speedY > canvas.height
          /\ Update(particles[i], canvas).y = 0

\* C3 (as claimed): whenever a deferred swap callback completes, the displayed
\* title and subtitle are those of CONFIG.messages[CONFIG.currentMessageIndex]
\* and the text is opaque again.
C3_SwapShowsCurrentMessage ==
    [][hist'.swaps # hist.swaps =>
          /\ dom'.title = Messages[cfg'.currentMessageIndex + 1].title
          /\ dom'.subtitle = Messages[cfg'.currentMessageIndex + 1].subtitle
          /\ dom'.messageOpacity = "1"
          /\ dom'.subtitleOpacity = "1"]_vars

\* C4: in the cycling variant a qualifying interaction that arrives while
\* isRevealed is true hides nothing again, sets no reveal timer and re-applies
\* no 'revealed' style; it advances the message index, fades the text out and
\* defers the swap, and leaves the particles, the canvas and the text alone.
\* The instruction is hidden once, one reveal timer is ever set and its effect
\* is applied at most once.
C4_RevealIsIdempotent ==
    /\ [](hist.hides <= 1 /\ hist.revealTimers <= 1 /\ hist.revealEffects <= 1)
    /\ [][(variant = "cycling" /\ isRevealed /\ hist'.triggers # hist.triggers) =>
            /\ isRevealed'
            /\ hist'.hides = hist.hides
            /\ hist'.revealTimers = hist.revealTimers
            /\ hist'.revealEffects = hist.revealEffects
            /\ Cardinality(Pending("reveal"))' = Cardinality(Pending("reveal"))
            /\ dom'.instructionHidden = dom.instructionHidden
            /\ dom'.hintHidden = dom.hintHidden
            /\ dom'.messageRevealed = dom.messageRevealed
            /\ dom'.subtitleRevealed = dom.subtitleRevealed
            /\ dom'.title = dom.title
            /\ dom'.subtitle = dom.subtitle
            /\ hist'.cycles = hist.cycles + 1
            /\ cfg'.currentMessageIndex = (cfg.currentMessageIndex + 1) % Len(Messages)
            /\ Cardinality(Pending("swap"))' = Cardinality(Pending("swap")) + 1
            /\ << particles, canvas, win, ripples, raf >>' = << particles, canvas, win, ripples, raf >>
          ]_vars

\* C4 witness: two cycles have been triggered after the reveal, whose effect
\* has been applied once.
C4_Witness ==
    /\ variant = "cycling" /\ isRevealed
    /\ hist.cycles >= 2 /\ hist.hides = 1 /\ hist.revealEffects = 1

\* C5: in the cycling variant the index stays within the message list, is 0
\* up to and including the revealing interaction, and after n further
\* triggers is n modulo the length of the list.
C5_ModularCycling ==
    variant = "cycling" =>
        /\ cfg.currentMessageIndex \in 0..(Len(Messages) - 1)
        /\ hist.cycles = (IF hist.triggers = 0 THEN 0 ELSE hist.triggers - 1)
        /\ cfg.currentMessageIndex = hist.cycles % Len(Messages)

\* C5 witness: as many cycle triggers as there are messages, and the index
\* back at 0.
C5_Witness ==
    /\ variant = "cycling"
    /\ hist.triggers = Len(Messages) + 1
    /\ cfg.currentMessageIndex = 0

\* C6: the first qualifying interaction sets isRevealed and exactly one reveal
\* timer of the configured delay; a second one arriving while that timer is
\* pending moves the index from 0 to 1, hides nothing again and leaves exactly
\* that one reveal timer pending; the timer is never dropped or doubled before
\* its effect has run, and the effect runs at most once.
C6_RevealThenCycle ==
    /\ [](variant = "cycling" =>
            Cardinality(Pending("reveal")) + hist.revealEffects
                = (IF isRevealed THEN 1 ELSE 0))
    /\ [][(variant = "cycling" /\ ~isRevealed /\ hist'.triggers # hist.triggers) =>
            /\ isRevealed'
            /\ Cardinality(Pending("reveal"))' = 1
            /\ \A i \in Pending("reveal")' : timers'[i].delay = cfg.revealDelay
            /\ dom'.instructionHidden
            /\ cfg'.currentMessageIndex = 0]_vars
    /\ [][(/\ variant = "cycling" /\ hist.triggers = 1 /\ hist'.triggers = 2
           /\ Pending("reveal") # {}) =>
            /\ cfg.currentMessageIndex = 0
            /\ cfg'.currentMessageIndex = 1
            /\ hist'.hides = hist.hides
            /\ dom'.instructionHidden = dom.instructionHidden
            /\ Cardinality(Pending("reveal"))' = 1
            /\ hist'.revealEffects = 0]_vars

\* C6 witness: the second interaction has arrived with the reveal timer still
\* pending.
C6_Witness ==
    /\ variant = "cycling"
    /\ hist.triggers = 2
    /\ cfg.currentMessageIndex = 1
    /\ Cardinality(Pending("reveal")) = 1
    /\ hist.hides = 1

\* C7: in every state, so at the end of every animate pass, no particle of
\* the collection has life <= 0.
C7_NoDeadParticleAfterPass ==
    \A i \in Indices : particles[i].life > 0

\* C7 witness: a pass has removed a dead burst particle from a collection in
\* which an ambient particle follows a burst particle.
C7_Witness ==
    /\ hist.removed > 0
    /\ \E i, j \in Indices : i < j /\ particles[i].decay > 0 /\ particles[j].decay = 0

\* C8: an ambient particle keeps life = 1, and the number of ambient
\* particles changes in no step other than a resize or a utility call
\* (addParticles): no frame and no burst removes one.
C8_AmbientNeverEvicted ==
    /\ [](\A i \in Ambient(particles) : particles[i].life = FullLife)
    /\ [][(hist'.resizes = hist.resizes /\ hist'.calls = hist.calls) =>
            Cardinality(Ambient(particles))' = Cardinality(Ambient(particles))]_vars

\* C8 witness: burst particles have been removed around ambient particles,
\* some of them added by addParticles.
C8_Witness ==
    /\ hist.removed >= 2
    /\ hist.calls > 0
    /\ Cardinality(Ambient(particles)) > cfg.count

\* What C9 claims getEventCoords and its inline counterparts return.
ClaimedCoords(s, e) ==
    IF e.def /\ Len(e.touches) > 0
    THEN [x |-> e.touches[1].clientX, y |-> e.touches[1].clientY]
    ELSE IF e.def /\ e.hasClient
         THEN [x |-> e.clientX, y |-> e.clientY]
         ELSE [x |-> s.canvas.width \div 2, y |-> s.canvas.height \div 2]

\* C9 (as claimed): every handler that resolves coordinates (the deferred
\* callbacks of the cycling variant, handleInteraction of the ripple variant,
\* which puts its ripple there) gets the primary touch point, else the client
\* coordinates, 0 included, else the centre of the canvas.
C9_CoordinateResolution ==
    /\ [](variant = "cycling" =>
            \A i \in Pending("reveal") \cup Pending("swap") :
                CallbackOrigin(State, timers[i]) = ClaimedCoords(State, timers[i].e))
    /\ [][(variant = "ripple" /\ hist'.ripplesMade # hist.ripplesMade) =>
            \A r \in ripples' \ ripples :
                [x |-> r.left, y |-> r.top] = ClaimedCoords(State, hist'.pointer)]_vars

\* C10 (as claimed): the burst a pending callback is about to create, at an
\* origin inside the surface, appends exactly particleBurstCount particles
\* after the unchanged collection, each at exactly the origin with life 1,
\* opacity 1 and decay 0.02, whatever Math.random() returns.
C10_BurstAtOrigin ==
    \A i \in 1..Len(timers) :
        LET t  == timers[i]
            s0 == [State EXCEPT !.timers = RemoveAt(@, i)]
            o  == CallbackOrigin(s0, t)
        IN  (/\ CallbackBursts(s0, t)
             /\ 0 <= o.x /\ o.x < canvas.width
             /\ 0 <= o.y /\ o.y < canvas.height) =>
              \A ds \in DrawSeqs(s0, cfg.burstCount, Num(o.x), Num(o.y), TRUE) :
                  LET after == CreateParticleBurst(s0, o.x, o.y, ds).particles
                  IN  /\ Len(after) = Len(particles) + cfg.burstCount
                      /\ SubSeq(after, 1, Len(particles)) = particles
                      /\ \A k \in (Len(particles) + 1)..Len(after) :
                            /\ after[k].x = o.x
                            /\ after[k].y = o.y
                            /\ after[k].life = FullLife
                            /\ after[k].opacity = FullLife
                            /\ after[k].decay = 1

\* A collection as initParticles leaves it: CONFIG.particles.count ambient
\* particles of the configured size inside the canvas.
FreshField(ps, cf, cv) ==
    /\ Len(ps) = cf.count
    /\ \A k \in 1..Len(ps) :
          /\ 0 <= ps[k].x /\ ps[k].x < cv.width
          /\ 0 <= ps[k].y /\ ps[k].y < cv.height
          /\ ps[k].size = cf.size
          /\ ps[k].decay = 0
          /\ ps[k].life = FullLife

\* C11: whatever the collection holds (bursts in flight, added particles)
\* and whatever Math.random() returns, initParticles leaves exactly
\* CONFIG.particles.count particles, each inside the canvas, of the configured
\* size, with decay 0 and life 1, and changes nothing else.
C11_InitParticlesFreshField ==
    \A ds \in DrawSeqs(State, cfg.count, Undefined, Undefined, FALSE) :
        LET after == InitParticles(State, ds)
        IN  /\ FreshField(after.particles, cfg, canvas)
            /\ after = [State EXCEPT !.particles = after.particles]

\* C11 witness: the cycling variant after a resize has run initParticles over
\* a collection that held the burst of a swap.
C11_Witness ==
    /\ variant = "cycling"
    /\ hist.swaps >= 1 /\ hist.resizes >= 1 /\ hist.removed = 0
    /\ Bursting(particles) = {}
    /\ Len(particles) = cfg.count

\* C12: once isRevealed is true it is true in every later state: no event,
\* timer, frame or utility call resets it.
C12_RevealIsOneWay ==
    [][isRevealed => isRevealed']_vars

\* C12 witness: revealed, the reveal effect applied, and a resize or scroll
\* and a utility call have happened.
C12_Witness ==
    /\ isRevealed
    /\ hist.revealEffects = 1
    /\ hist.resizes >= 1
    /\ hist.calls >= 1

\* C13: in the cycling and the simple variant, right after the window has
\* taken a new size the canvas has that size and the collection is exactly
\* CONFIG.particles.count ambient particles inside it: bursts in flight and
\* particles added by addParticles are gone.
C13_ResizeRegeneratesField ==
    [][(variant # "ripple" /\ win' # win) =>
          /\ canvas' = [width |-> win'.innerWidth, height |-> win'.innerHeight]
          /\ FreshField(particles', cfg', canvas')]_vars

\* C13 witness: the simple variant, resized after a click's burst (its pulse
\* still pending) and after addParticles, holds only its ambient particles.
C13_Witness ==
    /\ variant = "simple"
    /\ Pending("pulse") # {}
    /\ hist.added >= 1 /\ hist.resizes >= 1 /\ hist.removed = 0
    /\ Len(particles) = cfg.count
    /\ Bursting(particles) = {}

\* The Math.random() outcomes handleInteraction(e) may consume in this state.
HandlerDraws(e) ==
    LET o == InteractionOrigin(State, e)
    IN  IF variant = "cycling" THEN {<< >>}
        ELSE DrawSeqs(State, cfg.burstCount, Num(o.x), Num(o.y), TRUE)

\* C14 (as claimed): in every state, Hidden or Revealed, a click or a
\* touchstart leaves the container 'active' with a removal timer pending, and
\* the container is not 'active' once no pulse timer is pending.
C14_ActivePulse ==
    /\ \A e \in PointerEvents(env.points) :
          \A ds \in HandlerDraws(e) :
              LET s1 == HandleInteraction(State, e, ds)
              IN  /\ s1.dom.active
                  /\ \E i \in 1..Len(s1.timers) : s1.timers[i].kind = "pulse"
    /\ (Pending("pulse") = {} => ~dom.active)

\* State s1 has, beyond the present state, exactly one ripple element more
\* and exactly one removal timer of RippleDuration more, which is for it.
OneRippleMore(s1) ==
    LET new == {i \in 1..Len(s1.timers) : s1.timers[i].kind = "ripple"}
    IN  /\ ripples \subseteq s1.ripples
        /\ Cardinality(s1.ripples) = Cardinality(ripples) + 1
        /\ Cardinality(new) = Cardinality(Pending("ripple")) + 1
        /\ \A i \in new : s1.timers[i].delay = RippleDuration
        /\ \A r \in s1.ripples \ ripples :
              \E i \in new : s1.timers[i].ripple = r.id

\* C15: in the ripple variant the ripple elements present are exactly those
\* whose removal timer is pending, none is left when no such timer is, and a
\* click or touchstart, in any state in which the environment can deliver
\* one, adds exactly one element and exactly one removal timer of
\* RippleDuration for it.
C15_RippleSelfRemoval ==
    variant = "ripple" =>
        /\ {r.id : r \in ripples} = {timers[i].ripple : i \in Pending("ripple")}
        /\ Cardinality(ripples) = Cardinality(Pending("ripple"))
        /\ Cardinality(ripples) <= hist.ripplesMade
        /\ (Pending("ripple") = {} => ripples = {})
        /\ hist.interactions < env.interactions =>
              \A e \in PointerEvents(env.points) :
                  \A ds \in HandlerDraws(e) :
                      OneRippleMore(HandleInteraction(State, e, ds))

\* C15 witness: two ripples made while revealed, one already removed and one
\* still present.
C15_Witness ==
    /\ variant = "ripple"
    /\ isRevealed
    /\ hist.ripplesMade = 2
    /\ Cardinality(ripples) = 1

\* State s1 is the present state with n ambient-style particles appended.
GrownBy(s1, n) ==
    /\ Len(s1.particles) = Len(particles) + n
    /\ SubSeq(s1.particles, 1, Len(particles)) = particles
    /\ \A k \in (Len(particles) + 1)..Len(s1.particles) :
          /\ s1.particles[k].decay = 0
          /\ s1.particles[k].life = FullLife
          /\ s1.particles[k].size = cfg.size
    /\ [s1 EXCEPT !.particles = particles, !.hist = hist] = State

\* C16: in every state in which a host script can still call it,
\* addParticles(count) appends exactly count particles
\* with decay 0, life 1 and the configured size after the unchanged existing
\* ones, and changes nothing else of the program state.
C16_AddParticlesAppends ==
    hist.calls < env.calls =>
      \A n \in 1..MaxAdd :
        \A ds \in DrawSeqs(State, n, Undefined, Undefined, FALSE) :
            GrownBy(AddParticles(State, n, ds), n)

\* C16 witness: particles added by addParticles follow those present before,
\* on a revealed page.
C16_Witness ==
    /\ isRevealed
    /\ hist.added = MaxAdd
    /\ Len(particles) >= cfg.count + MaxAdd
    /\ \A k \in (Len(particles) - MaxAdd + 1)..Len(particles) : particles[k].decay = 0

\* C17: in the variants that define setMessage, in every state the call
\* leaves the displayed title and subtitle equal to its arguments and changes
\* nothing else; a step that delivers the call leaves the revealed flag, the
\* message index, the particles and the pending timers as they were.
C17_SetMessageOverwritesText ==
    /\ [](variant # "ripple" =>
            \A m \in CustomTexts :
                LET s1 == SetMessage(State, m.title, m.subtitle)
                IN  /\ s1.dom.title = m.title
                    /\ s1.dom.subtitle = m.subtitle
                    /\ [s1 EXCEPT !.dom.title = dom.title,
                                  !.dom.subtitle = dom.subtitle] = State)
    /\ [][(variant # "ripple" /\ hist'.calls # hist.calls /\ dom' # dom) =>
            /\ \E m \in CustomTexts : dom'.title = m.title /\ dom'.subtitle = m.subtitle
            /\ isRevealed' = isRevealed
            /\ cfg' = cfg
            /\ particles' = particles
            /\ timers' = timers]_vars

\* C17 witness: setMessage has written its text on a revealed page with a
\* timer still pending.
C17_Witness ==
    /\ variant # "ripple"
    /\ isRevealed
    /\ timers # << >>
    /\ \E m \in CustomTexts : dom.title = m.title /\ dom.subtitle = m.subtitle

\* C18 (as claimed): a frame updates every particle that is in the collection
\* when the pass starts exactly once, and drops those whose life it brings to 0
\* or below: the collection after the pass is the updated one without the dead.
C18_EveryParticleAdvancedOnce ==
    [][hist'.frames # hist.frames =>
          particles' = SelectSeq([k \in 1..Len(particles) |-> Update(particles[k], canvas)],
                                 LAMBDA q : q.life > 0)]_vars

\* C19 (as claimed): while the reveal callback is pending, after the first
\* qualifying interaction, nothing of the reveal has been applied: the
\* instruction and the hint are still visible and the title and subtitle do
\* not have the 'revealed' style.
C19_RevealEffectsDeferred ==
    Pending("reveal") # {} =>
        /\ ~dom.instructionHidden
        /\ ~dom.hintHidden
        /\ ~dom.messageRevealed
        /\ ~dom.subtitleRevealed

\* C20 (as claimed): when the first qualifying interaction (click, touch,
\* Space or Enter) is all that has happened besides timers, the collection
\* holds, beyond its CONFIG.particles.count ambient particles, one burst of
\* particleBurstCount once the reveal callback has run with glowOnReveal true,
\* and nothing otherwise.
C20_GlowGatesRevealBurst ==
    (/\ hist.interactions = 1 /\ hist.triggers = 1
     /\ hist.frames = 0 /\ hist.resizes = 0 /\ hist.calls = 0) =>
        Len(particles) = cfg.count +
            (IF cfg.glowOnReveal /\ hist.revealEffects = 1 THEN cfg.burstCount ELSE 0)

\* C21 (as claimed): the burst a cycle's swap callback adds is strictly
\* smaller than the particleBurstCount particles of the initial reveal's burst.
C21_CycleBurstIsSmaller ==
    [][(variant = "cycling" /\ hist'.swaps # hist.swaps) =>
          Len(particles') - Len(particles) < cfg.burstCount]_vars

\* C22: in every reachable state exactly one frame callback is pending, and
\* after any number of animate passes another pass eventually runs, for as
\* long as the environment has frames left, whatever interactions, key
\* presses, resizes, scrolls, timers and utility calls come in between.
C22_SingleRenderLoop ==
    /\ [](raf = 1)
    /\ \A n \in 0..MaxFrames :
         (hist.frames = n /\ n < env.frames) ~> (hist.frames = n + 1)

\* C22 witness: passes have run after an interaction and its reveal callback,
\* and one frame callback is pending.
C22_Witness ==
    /\ raf = 1
    /\ hist.frames = MaxFrames
    /\ isRevealed
    /\ hist.revealEffects = 1

\* What the reveal state machine holds in state s: the flag, the message
\* index, the prompt and text styles it sets, and its pending callbacks.
Machine(s) ==
    LET own == SelectSeq(s.timers, LAMBDA t : t.kind \in {"reveal", "swap"})
    IN  [isRevealed        |-> s.isRevealed,
         index             |-> s.cfg.currentMessageIndex,
         instructionHidden |-> s.dom.instructionHidden,
         hintHidden        |-> s.dom.hintHidden,
         messageOpacity    |-> s.dom.messageOpacity,
         subtitleOpacity   |-> s.dom.subtitleOpacity,
         callbacks         |-> [i \in 1..Len(own) |->
                                  [kind |-> own[i].kind, delay |-> own[i].delay,
                                   msg |-> own[i].msg]]]

\* The centre of the canvas of state s.
CanvasCentre(s) == [x |-> s.canvas.width \div 2, y |-> s.canvas.height \div 2]

\* The pending reveal and swap callbacks that were set without an event, as a
\* key press sets them, and that will create a burst.
KeyedBursts ==
    {i \in 1..Len(timers) : /\ timers[i].kind \in {"reveal", "swap"}
                            /\ timers[i].e = NoEvent
                            /\ CallbackBursts(State, timers[i])}

\* The state machine moves on Space or Enter as it does on a pointer press.
KeyMovesLikePointer ==
    \A key \in {" ", "Enter"} :
      \A e \in PointerEvents(EventPoints) :
        LET o == InteractionOrigin(State, e)
        IN  \A ds \in IF variant = "cycling" THEN {<< >>}
                      ELSE DrawSeqs(State, cfg.burstCount, Num(o.x), Num(o.y), TRUE) :
              /\ Machine(HandleKeyPress(State, key)) = Machine(HandleInteraction(State, e, ds))
              /\ HandleKeyPress(State, key).isRevealed
              /\ HandleKeyPress(State, key).cfg.currentMessageIndex =
                   IF variant = "cycling" /\ isRevealed
                   THEN (cfg.currentMessageIndex + 1) % Len(Messages)
                   ELSE cfg.currentMessageIndex

\* Any other key changes nothing but the count of events delivered.
OtherKeysIgnored ==
    \A key \in Keys \ {" ", "Enter"} :
      HandleKeyPress(State, key) = Bump(State, "interactions")

\* C23 (as claimed): Space or Enter moves the state machine as a pointer press
\* in the same state does (reveal when Hidden, next message index when
\* Revealed), the burst of a callback set by a key press is at the centre of
\* the canvas, and any other key leaves flag, index, particles and timers alone.
C23_KeyboardIsQualifying ==
    /\ hist.interactions < env.interactions => KeyMovesLikePointer /\ OtherKeysIgnored
    /\ \A i \in KeyedBursts : CallbackOrigin(State, timers[i]) = CanvasCentre(State)

\* C24: in the cycling variant, once a cycle has been triggered and no swap
\* callback is pending any more, and setMessage was never called, the page
\* shows the title and subtitle of CONFIG.messages[CONFIG.currentMessageIndex]
\* at opacity 1, however many triggers there were and however their callbacks
\* interleaved with them.
C24_QuiescentTextConsistent ==
    (/\ variant = "cycling"
     /\ hist.cycles >= 1
     /\ hist.setAt = -1
     /\ Pending("swap") = {}) =>
        /\ dom.title = Messages[cfg.currentMessageIndex + 1].title
        /\ dom.subtitle = Messages[cfg.currentMessageIndex + 1].subtitle
        /\ dom.messageOpacity = "1"
        /\ dom.subtitleOpacity = "1"

\* C24 witness: the page at rest after three cycle triggers, the swap
\* callbacks of all of them run.
C24_Witness ==
    /\ variant = "cycling"
    /\ hist.setAt = -1
    /\ hist.cycles >= 3
    /\ hist.swaps = hist.cycles
    /\ Pending("swap") = {}
    /\ dom.title = Messages[cfg.currentMessageIndex + 1].title

\* C25 (as claimed): in the cycling variant, while no qualifying interaction
\* has come since setMessage was called, no step other than another utility
\* call (a timer callback in particular) changes the displayed title or
\* subtitle.
C25_SetMessageTextPersists ==
    [][(/\ variant = "cycling"
        /\ hist.setAt = hist.triggers
        /\ hist'.triggers = hist.triggers
        /\ hist'.calls = hist.calls) =>
          /\ dom'.title = dom.title
          /\ dom'.subtitle = dom.subtitle]_vars

====
